---- MODULE Spec2Model ----
(***************************************************************************)
(* Model of srt-extract.py: format_timestamp, segments_to_srt and main.    *)
(*                                                                         *)
(* Text is a sequence of one-character strings.  A float number of seconds *)
(* handed to format_timestamp is a record [whole, frac]: whole seconds plus*)
(* frac ticks, a tick being 1/TicksPerMicro of a microsecond, so that the  *)
(* microsecond rounding of datetime.timedelta has something to round.      *)
(* The floats of segments_to_srt are held as whole numbers of quanta of    *)
(* 2^-FracBits seconds and keep Precision significant bits: every float    *)
(* operation rounds its exact result to the nearest such number.           *)
(***************************************************************************)
EXTENDS Integers, Sequences, FiniteSets, TLC

\* ------------------------------------------------------------------ units

\* a tick is 2^-6 of a microsecond
TicksPerMicro == 2 ^ 6
MicrosPerSecond == 1000000
MicrosPerMilli == 1000
SecondsPerHour == 3600
SecondsPerMinute == 60
TicksPerSecond == TicksPerMicro * MicrosPerSecond

\* ----------------------------------------------------------------- bounds

\* format_timestamp is exercised up to this many hours
MaxHours == 100
\* the longest list of segments handed to segments_to_srt
MaxSegments == 2
\* the largest max_words tried (the smallest is -1)
MaxMaxWords == 3
\* a float keeps this many significant bits (a Python float keeps 53); every
\* float operation rounds its exact result to the nearest such number, ties
\* to even
Precision == 5
\* the smallest float spacing is 2^-FracBits seconds: a float is held as its
\* (integer) number of these quanta
FracBits == 10

\* ------------------------------------------------------------------ state

VARIABLES
    seconds,        \* format_timestamp: the argument of the call
    stamp,          \* the string it returned, <<>> while it has not
    prev_seconds,   \* the argument of the call before it
    prev_stamp,     \* the string the call before it returned
    segments,       \* segments_to_srt: the list of segments
    max_words,      \* segments_to_srt: the word limit
    srt_pc,         \* "idle", "for" (in the loop), "returned" or "raised"
    seg_pos,        \* how many segments the for loop has consumed
    idx,            \* the caption counter
    lines,          \* the output lines so far
    captions,       \* the captions emitted so far, with their float bounds
    srt_return,     \* the returned string
    srt_error,      \* the exception raised, "" for none
    pc,             \* main: where the run is
    input_exists,   \* main: os.path.isfile(input_path)
    model_loaded,   \* main: whisper.load_model has returned
    transcribed,    \* main: model.transcribe has returned
    exit_status,    \* main: "running", or the exit status
    stderr,         \* main: what was printed to stderr
    output_file     \* main: the output file

fmt_vars == <<seconds, stamp, prev_seconds, prev_stamp>>
srt_vars == <<segments, max_words, srt_pc, seg_pos, idx, lines, captions,
              srt_return, srt_error>>
main_vars == <<pc, input_exists, model_loaded, transcribed, exit_status,
               stderr, output_file>>
vars == <<seconds, stamp, prev_seconds, prev_stamp,
          segments, max_words, srt_pc, seg_pos, idx, lines, captions,
          srt_return, srt_error,
          pc, input_exists, model_loaded, transcribed, exit_status, stderr,
          output_file>>

\* --------------------------------------------------------------- integers

Abs(x) == IF x < 0 THEN -x ELSE x

\* round(n / d) as Python's round(): to nearest, ties to the even integer
RoundHalfEven(n, d) ==
    LET q == n \div d
        r == n % d
    IN  IF 2 * r < d THEN q
        ELSE IF 2 * r > d THEN q + 1
        ELSE IF q % 2 = 0 THEN q ELSE q + 1

\* ------------------------------------------------------------------- text

DigitChar(d) == CASE d = 0 -> "0" [] d = 1 -> "1" [] d = 2 -> "2" [] d = 3 -> "3"
                  [] d = 4 -> "4" [] d = 5 -> "5" [] d = 6 -> "6" [] d = 7 -> "7"
                  [] d = 8 -> "8" [] d = 9 -> "9"

RECURSIVE Decimal(_)
\* str(n) for n >= 0
Decimal(n) == IF n < 10 THEN <<DigitChar(n)>>
              ELSE Decimal(n \div 10) \o <<DigitChar(n % 10)>>

\* the width of the format spec forgotten
ZeroPadNone(s, width) == s

RECURSIVE ZeroPad(_, _)
\* the format spec 0<width>d: zero-padded to at least width digits, never cut
ZeroPad(s, width) == IF Len(s) >= width THEN s ELSE ZeroPad(<<"0">> \o s, width)

FormatD(n, width) == ZeroPad(Decimal(n), width)

\* -------------------------------------------------------- format_timestamp

\* the microseconds truncated instead of rounded
timedeltaTruncating(s) ==
    [seconds |-> s.whole, microseconds |-> s.frac \div TicksPerMicro]

\* timedelta(seconds=s): s rounded to the nearest microsecond (ties to even),
\* normalised to whole seconds and 0 <= microseconds < 10^6
timedelta(s) ==
    LET us == RoundHalfEven(s.frac, TicksPerMicro)
    IN  IF us >= MicrosPerSecond
        THEN [seconds |-> s.whole + 1, microseconds |-> us - MicrosPerSecond]
        ELSE [seconds |-> s.whole, microseconds |-> us]

format_timestamp(s) ==
    LET td == timedelta(s)
        total_seconds == td.seconds
        hours == total_seconds \div SecondsPerHour
        minutes == (total_seconds % SecondsPerHour) \div SecondsPerMinute
        secs == total_seconds % SecondsPerMinute
        milliseconds == td.microseconds \div MicrosPerMilli
    IN  FormatD(hours, 2) \o <<":">> \o FormatD(minutes, 2) \o <<":">>
        \o FormatD(secs, 2) \o <<",">> \o FormatD(milliseconds, 3)

\* ----------------------------------------------------------------- floats

QuantaPerSecond == 2 ^ FracBits
TicksPerQuantum == TicksPerSecond \div QuantaPerSecond

RECURSIVE UlpOf(_, _, _)
\* the spacing of the floats around n/d quanta: the least power of two u
\* with n/d < 2^Precision * u
UlpOf(n, d, u) == IF n < (2 ^ Precision) * u * d THEN u ELSE UlpOf(n, d, 2 * u)

\* the float nearest to n/d quanta, ties to even (n >= 0, d > 0)
Fl(n, d) == LET u == UlpOf(n, d, 1) IN RoundHalfEven(n, d * u) * u

\* Python's float operators
FSub(a, b) == Fl(a - b, 1)
FAdd(a, b) == Fl(a + b, 1)
FDivInt(a, n) == Fl(a, n)
FMulInt(i, a) == Fl(i * a, 1)

\* the number of seconds a float stands for, as format_timestamp takes it
ToSeconds(v) == [whole |-> v \div QuantaPerSecond,
                 frac |-> (v % QuantaPerSecond) * TicksPerQuantum]

\* ------------------------------------------------------------ str methods

IsSpace(c) == c \in {" ", "\t", "\n"}

RECURSIVE SplitFrom(_, _, _, _)
\* text[p..] scanned with the word in progress cur and the words found acc
SplitFrom(text, p, cur, acc) ==
    IF p > Len(text)
    THEN IF cur = <<>> THEN acc ELSE Append(acc, cur)
    ELSE IF IsSpace(text[p])
         THEN SplitFrom(text, p + 1, <<>>,
                        IF cur = <<>> THEN acc ELSE Append(acc, cur))
         ELSE SplitFrom(text, p + 1, Append(cur, text[p]), acc)

\* text.strip().split(): the maximal runs of non-whitespace characters
StripSplit(text) == SplitFrom(text, 1, <<>>, <<>>)

RECURSIVE Join(_, _)
\* sep.join(parts)
Join(sep, parts) ==
    IF parts = <<>> THEN <<>>
    ELSE IF Len(parts) = 1 THEN parts[1]
    ELSE parts[1] \o sep \o Join(sep, Tail(parts))

Min(a, b) == IF a <= b THEN a ELSE b

\* the slice one word short: words[i : i + max_words - 1]
SliceShort(words, i, n) == SubSeq(words, i + 1, Min(i + n, Len(words)) - 1)

\* the slice one word long: words[i : i + max_words + 1]
SliceLong(words, i, n) == SubSeq(words, i + 1, Min(i + n + 1, Len(words)))

\* words[i : i + max_words] (i counted from 0)
Slice(words, i, n) == SubSeq(words, i + 1, Min(i + n, Len(words)))

\* ---------------------------------------------------------- segments_to_srt

\* the increment forgotten
NextIdxStuck(i) == i

\* idx += 1
NextIdx(i) == i + 1

\* a newline added after the last line
SrtDocumentNewline(ls) == Join(<<"\n">>, ls) \o <<"\n">>

\* "\n".join(lines)
SrtDocument(ls) == Join(<<"\n">>, ls)

\* the four lines of one caption block
CaptionLines(index, start, end, words) ==
    << Decimal(index),
       format_timestamp(ToSeconds(start)) \o <<" ", "-", "-", ">", " ">>
           \o format_timestamp(ToSeconds(end)),
       Join(<<" ">>, words),
       <<>> >>

Caption(index, seg, start, end, words) ==
    [index |-> index, seg |-> seg, start |-> start, end |-> end, words |-> words]

\* the condition of the if: the segment is emitted as it is
ShortEnough(words, mw) == Len(words) <= mw

\* sub_start and sub_end of the chunk at word offset i holding k words
SubStart(start_time, i, word_duration) == FAdd(start_time, FMulInt(i, word_duration))
SubEnd(sub_start, k, word_duration) == FAdd(sub_start, FMulInt(k, word_duration))

RECURSIVE SplitCaptions(_, _, _, _, _, _, _)
\* the captions of the iterations i, i + mw, ... of the inner for loop; the
\* first of them gets the index first_idx.  range(0, n, mw) is empty when
\* mw < 0
SplitCaptions(words, seg, start_time, word_duration, mw, i, first_idx) ==
    IF mw < 0 \/ i >= Len(words) THEN <<>>
    ELSE LET chunk == Slice(words, i, mw)
             sub_start == SubStart(start_time, i, word_duration)
             sub_end == SubEnd(sub_start, Len(chunk), word_duration)
         IN  <<Caption(first_idx, seg, sub_start, sub_end, chunk)>>
             \o SplitCaptions(words, seg, start_time, word_duration, mw,
                              i + mw, NextIdx(first_idx))

RECURSIVE LinesOf(_)
LinesOf(caps) ==
    IF caps = <<>> THEN <<>>
    ELSE CaptionLines(caps[1].index, caps[1].start, caps[1].end, caps[1].words)
         \o LinesOf(Tail(caps))

\* the exception the else branch raises, "" for none: the division by
\* len(words), then range() with a step of 0
SplitError(words, mw) ==
    IF Len(words) = 0 THEN "ZeroDivisionError"
    ELSE IF mw = 0 THEN "ValueError"
    ELSE ""

\* lines 52-53: the call has set lines and idx
SrtEntry ==
    /\ srt_pc = "for"
    /\ seg_pos = 0
    /\ idx = 1
    /\ lines = <<>>
    /\ captions = <<>>
    /\ srt_return = <<>>
    /\ srt_error = ""

\* one iteration of the for loop through the if branch
SegmentShort ==
    /\ srt_pc = "for"
    /\ seg_pos < Len(segments)
    /\ LET seg == segments[seg_pos + 1]
           words == StripSplit(seg.text)
       IN  /\ ShortEnough(words, max_words)
           /\ lines' = lines \o CaptionLines(idx, seg.start, seg.end, words)
           /\ captions' = Append(captions,
                                 Caption(idx, seg_pos + 1, seg.start, seg.end, words))
           /\ idx' = NextIdx(idx)
    /\ seg_pos' = seg_pos + 1
    /\ UNCHANGED <<segments, max_words, srt_pc, srt_return, srt_error>>
    /\ UNCHANGED <<fmt_vars, main_vars>>

\* one iteration of the for loop through the else branch, the inner loop
\* included
SegmentSplit ==
    /\ srt_pc = "for"
    /\ seg_pos < Len(segments)
    /\ LET seg == segments[seg_pos + 1]
           words == StripSplit(seg.text)
           duration == FSub(seg.end, seg.start)
       IN  /\ ~ShortEnough(words, max_words)
           /\ SplitError(words, max_words) = ""
           /\ LET word_duration == FDivInt(duration, Len(words))
                  caps == SplitCaptions(words, seg_pos + 1, seg.start,
                                        word_duration, max_words, 0, idx)
              IN  /\ lines' = lines \o LinesOf(caps)
                  /\ captions' = captions \o caps
                  /\ idx' = IF caps = <<>> THEN idx
                             ELSE NextIdx(caps[Len(caps)].index)
    /\ seg_pos' = seg_pos + 1
    /\ UNCHANGED <<segments, max_words, srt_pc, srt_return, srt_error>>
    /\ UNCHANGED <<fmt_vars, main_vars>>

\* the else branch raises: nothing catches it in segments_to_srt
SegmentRaise ==
    /\ srt_pc = "for"
    /\ seg_pos < Len(segments)
    /\ LET words == StripSplit(segments[seg_pos + 1].text)
       IN  /\ ~ShortEnough(words, max_words)
           /\ SplitError(words, max_words) # ""
           /\ srt_error' = SplitError(words, max_words)
    /\ srt_pc' = "raised"
    /\ UNCHANGED <<segments, max_words, seg_pos, idx, lines, captions, srt_return>>
    /\ UNCHANGED <<fmt_vars, main_vars>>

\* the for loop is over: return "\n".join(lines)
Return ==
    /\ srt_pc = "for"
    /\ seg_pos = Len(segments)
    /\ srt_return' = SrtDocument(lines)
    /\ srt_pc' = "returned"
    /\ UNCHANGED <<segments, max_words, seg_pos, idx, lines, captions, srt_error>>
    /\ UNCHANGED <<fmt_vars, main_vars>>

NextSrt == SegmentShort \/ SegmentSplit \/ SegmentRaise \/ Return

\* ------------------------------------------------- inputs of segments_to_srt

\* k quarters of a second, as a float
Quarters(k) == (k * QuantaPerSecond) \div 4

TextSamples ==
    { <<>>,
      <<" ", " ">>,
      <<" ", "a">>,
      <<" ", "a", " ", " ", "b", "\n", "c", " ">>,
      <<"a", " ", "b", " ", "c", " ", "d", " ", "e">> }

\* [start, end] with start <= end: 0.25-1.25 s, 1-1 s (no duration), 2.5-10 s
SpanSamples ==
    { <<Quarters(1), Quarters(5)>>,
      <<Quarters(4), Quarters(4)>>,
      <<Quarters(10), Quarters(40)>> }

\* "the quick brown fox jumps over the lazy dog", one letter a word, 0-9 s
NineWords ==
    [text |-> <<"t", " ", "q", " ", "b", " ", "f", " ", "j", " ", "o", " ",
                "h", " ", "l", " ", "d">>,
     start |-> Quarters(0), end |-> Quarters(36)]

SegmentSamples ==
    { [text |-> t, start |-> sp[1], end |-> sp[2]] :
        t \in TextSamples, sp \in SpanSamples } \cup {NineWords}

SegmentLists == UNION { [1..n -> SegmentSamples] : n \in 0..MaxSegments }

MaxWordsSamples == (0 - 1) .. MaxMaxWords

\* ------------------------------------------------------------------ main

NoOutput == [written |-> FALSE, content |-> <<>>]

\* the check for no segments left out
NoSegmentsUnchecked(segs) == FALSE

\* `if not segments`
NoSegments(segs) == Len(segs) = 0

FmtIdle ==
    /\ seconds = [whole |-> 0, frac |-> 0]
    /\ stamp = <<>>
    /\ prev_seconds = seconds
    /\ prev_stamp = <<>>

SrtIdle ==
    /\ segments = <<>>
    /\ srt_pc = "idle"
    /\ seg_pos = 0
    /\ idx = 1
    /\ lines = <<>>
    /\ captions = <<>>
    /\ srt_return = <<>>
    /\ srt_error = ""

MainIdle(at) ==
    /\ pc = at
    /\ model_loaded = FALSE
    /\ transcribed = FALSE
    /\ exit_status = "running"
    /\ stderr = <<>>
    /\ output_file = NoOutput

\* parse_args has returned
Init ==
    /\ FmtIdle
    /\ SrtIdle
    /\ max_words \in MaxWordsSamples
    /\ input_exists \in BOOLEAN
    /\ MainIdle("parsed")

\* lines 116-118
InputMissing ==
    /\ pc = "parsed"
    /\ ~input_exists
    /\ stderr' = Append(stderr, "Error: file not found")
    /\ exit_status' = "1"
    /\ pc' = "exited"
    /\ UNCHANGED <<input_exists, model_loaded, transcribed, output_file>>
    /\ UNCHANGED <<fmt_vars, srt_vars>>

\* line 124
LoadModel ==
    /\ pc = "parsed"
    /\ input_exists
    /\ model_loaded' = TRUE
    /\ pc' = "loaded"
    /\ UNCHANGED <<input_exists, transcribed, exit_status, stderr, output_file>>
    /\ UNCHANGED <<fmt_vars, srt_vars>>

\* lines 127-128: the engine returns its segments
Transcribe ==
    /\ pc = "loaded"
    /\ \E segs \in SegmentLists : segments' = segs
    /\ transcribed' = TRUE
    /\ pc' = "transcribed"
    /\ UNCHANGED <<input_exists, model_loaded, exit_status, stderr, output_file>>
    /\ UNCHANGED <<fmt_vars, max_words, srt_pc, seg_pos, idx, lines, captions,
                   srt_return, srt_error>>

\* line 127: the engine fails; main catches nothing, the interpreter prints
\* the traceback and exits with status 1
TranscribeRaises ==
    /\ pc = "loaded"
    /\ stderr' = Append(stderr, "Traceback")
    /\ exit_status' = "1"
    /\ pc' = "exited"
    /\ UNCHANGED <<input_exists, model_loaded, transcribed, output_file>>
    /\ UNCHANGED <<fmt_vars, srt_vars>>

\* lines 129-131
NoSpeech ==
    /\ pc = "transcribed"
    /\ NoSegments(segments)
    /\ stderr' = Append(stderr, "No speech segments detected. Exiting.")
    /\ exit_status' = "1"
    /\ pc' = "exited"
    /\ UNCHANGED <<input_exists, model_loaded, transcribed, output_file>>
    /\ UNCHANGED <<fmt_vars, srt_vars>>

\* line 134: the call of segments_to_srt
Convert ==
    /\ pc = "transcribed"
    /\ ~NoSegments(segments)
    /\ srt_pc' = "for"
    /\ seg_pos' = 0
    /\ idx' = 1
    /\ lines' = <<>>
    /\ captions' = <<>>
    /\ pc' = "converting"
    /\ UNCHANGED <<segments, max_words, srt_return, srt_error>>
    /\ UNCHANGED <<input_exists, model_loaded, transcribed, exit_status, stderr,
                   output_file>>
    /\ UNCHANGED fmt_vars

\* lines 135-138
WriteOutput ==
    /\ pc = "converting"
    /\ srt_pc = "returned"
    /\ output_file' = [written |-> TRUE, content |-> srt_return]
    /\ exit_status' = "0"
    /\ pc' = "done"
    /\ UNCHANGED <<input_exists, model_loaded, transcribed, stderr>>
    /\ UNCHANGED <<fmt_vars, srt_vars>>

\* line 134: segments_to_srt raised; main catches nothing
ConvertRaised ==
    /\ pc = "converting"
    /\ srt_pc = "raised"
    /\ stderr' = Append(stderr, "Traceback")
    /\ exit_status' = "1"
    /\ pc' = "exited"
    /\ UNCHANGED <<input_exists, model_loaded, transcribed, output_file>>
    /\ UNCHANGED <<fmt_vars, srt_vars>>

Next ==
    \/ InputMissing
    \/ LoadModel
    \/ Transcribe
    \/ TranscribeRaises
    \/ NoSpeech
    \/ Convert
    \/ SegmentShort
    \/ SegmentSplit
    \/ SegmentRaise
    \/ Return
    \/ WriteOutput
    \/ ConvertRaised

Spec == Init /\ [][Next]_vars

\* ------------------------------------------- segments_to_srt called directly

InitSrt ==
    /\ FmtIdle
    /\ segments \in SegmentLists
    /\ max_words \in MaxWordsSamples
    /\ SrtEntry
    /\ input_exists = FALSE
    /\ MainIdle("library")

SpecSrt == InitSrt /\ [][NextSrt]_vars

\* ------------------------------------------------- inputs of format_timestamp

WholeSamples ==
    {0, 1, 59, 60, 3599, 3600, 3661,
     MaxHours * SecondsPerHour - 1, MaxHours * SecondsPerHour}

\* 0, half a microsecond, just under 1 us, 1.5 us, just under and at 1 ms,
\* 0.2345 s, and remainders within a microsecond of the next second
FracSamples ==
    {0, 32, 63, 96, 63999, 64000, 15008000, 63999936, 63999968, 63999975}

SecondsSamples == [whole : WholeSamples, frac : FracSamples]

\* s1 <= s2 as numbers of seconds
SecondsLeq(s1, s2) == \/ s1.whole < s2.whole
                      \/ s1.whole = s2.whole /\ s1.frac <= s2.frac

InitFmt ==
    /\ seconds \in SecondsSamples
    /\ stamp = <<>>
    /\ prev_seconds = seconds
    /\ prev_stamp = <<>>
    /\ SrtIdle
    /\ max_words = 1
    /\ input_exists = FALSE
    /\ MainIdle("library")

\* the call of format_timestamp on the pending argument
FormatCall ==
    /\ stamp = <<>>
    /\ stamp' = format_timestamp(seconds)
    /\ UNCHANGED <<seconds, prev_seconds, prev_stamp>>
    /\ UNCHANGED <<srt_vars, main_vars>>

\* the caller keeps the result and picks the next argument
NextArgument ==
    /\ stamp # <<>>
    /\ prev_seconds' = seconds
    /\ prev_stamp' = stamp
    /\ seconds' \in SecondsSamples
    /\ stamp' = <<>>
    /\ UNCHANGED <<srt_vars, main_vars>>

NextFmt == FormatCall \/ NextArgument

SpecFmt == InitFmt /\ [][NextFmt]_vars

\* =========================================================== format_timestamp

IsDigit(c) == c \in {"0", "1", "2", "3", "4", "5", "6", "7", "8", "9"}

DigitVal(c) == CASE c = "0" -> 0 [] c = "1" -> 1 [] c = "2" -> 2 [] c = "3" -> 3
                 [] c = "4" -> 4 [] c = "5" -> 5 [] c = "6" -> 6 [] c = "7" -> 7
                 [] c = "8" -> 8 [] c = "9" -> 9

\* ASCII
CharCode(c) == CASE c = "," -> 44 [] c = ":" -> 58 [] OTHER -> 48 + DigitVal(c)

RECURSIVE NumberOf(_)
\* int(s) of a string of digits
NumberOf(s) == IF s = <<>> THEN 0
               ELSE 10 * NumberOf(SubSeq(s, 1, Len(s) - 1)) + DigitVal(s[Len(s)])

AllDigits(s) == \A p \in 1..Len(s) : IsDigit(s[p])

RECURSIVE StrLeq(_, _)
\* a <= b as Python compares strings
StrLeq(a, b) ==
    IF a = <<>> THEN TRUE
    ELSE IF b = <<>> THEN FALSE
    ELSE IF CharCode(a[1]) < CharCode(b[1]) THEN TRUE
    ELSE IF CharCode(a[1]) > CharCode(b[1]) THEN FALSE
    ELSE StrLeq(Tail(a), Tail(b))

\* the fields of a timestamp whose hours take h characters
HoursOf(s, h) == SubSeq(s, 1, h)
MinutesOf(s, h) == SubSeq(s, h + 2, h + 3)
SecsOf(s, h) == SubSeq(s, h + 5, h + 6)
MillisOf(s, h) == SubSeq(s, h + 8, h + 10)

\* s is <h digits>:<2 digits>:<2 digits>,<3 digits> with MM and SS in 00-59
WellFormed(s, h) ==
    /\ Len(s) = h + 10
    /\ AllDigits(HoursOf(s, h))
    /\ s[h + 1] = ":"
    /\ AllDigits(MinutesOf(s, h)) /\ NumberOf(MinutesOf(s, h)) <= 59
    /\ s[h + 4] = ":"
    /\ AllDigits(SecsOf(s, h)) /\ NumberOf(SecsOf(s, h)) <= 59
    /\ s[h + 7] = ","
    /\ AllDigits(MillisOf(s, h)) /\ NumberOf(MillisOf(s, h)) <= 999

\* more than half a microsecond below 100 hours: the hours stay below 10^2
BelowHundredHours(s) ==
    \/ s.whole < (10 ^ 2) * SecondsPerHour - 1
    \/ /\ s.whole = (10 ^ 2) * SecondsPerHour - 1
       /\ 2 * (TicksPerSecond - s.frac) > TicksPerMicro

\* C8 as stated: format_timestamp(s) matches two digits, ':', two digits,
\* ':', two digits, ',', three digits, with MM and SS in 00-59, and the
\* returned string never decreases as s increases.
C8_PatternAndMonotone ==
    stamp # <<>> =>
        /\ WellFormed(stamp, 2)
        /\ prev_stamp # <<>> /\ SecondsLeq(prev_seconds, seconds) =>
              StrLeq(prev_stamp, stamp)

\* C8 as amended: the hours take at least two digits, exactly two while s is
\* more than half a microsecond below 100 hours; MM and SS are in 00-59 and
\* mmm in 000-999; as s increases the string never gets shorter, and strings
\* of the same length never decrease.
C8_PatternWideHours ==
    stamp # <<>> =>
        /\ Len(stamp) >= 12
        /\ WellFormed(stamp, Len(stamp) - 10)
        /\ BelowHundredHours(seconds) => Len(stamp) = 12
        /\ prev_stamp # <<>> /\ SecondsLeq(prev_seconds, seconds) =>
              /\ Len(prev_stamp) <= Len(stamp)
              /\ Len(prev_stamp) = Len(stamp) => StrLeq(prev_stamp, stamp)

\* a later call at 100 hours or more after a call below 100 hours
C8_Witness ==
    /\ BelowHundredHours(prev_seconds)
    /\ seconds.whole >= (10 ^ 2) * SecondsPerHour
    /\ Len(stamp) = 13
    /\ Len(prev_stamp) = 12

\* the whole seconds a timestamp shows
ShownSeconds(s) ==
    LET h == Len(s) - 10
    IN  NumberOf(HoursOf(s, h)) * SecondsPerHour
        + NumberOf(MinutesOf(s, h)) * SecondsPerMinute
        + NumberOf(SecsOf(s, h))

ShownMillis(s) == NumberOf(MillisOf(s, Len(s) - 10))

TicksPerMilli == TicksPerMicro * MicrosPerMilli

\* C9 as stated: the fields are the decomposition of floor(s) and mmm is the
\* floor of the sub-second remainder in milliseconds; nothing is carried up.
C9_Truncates ==
    stamp # <<>> =>
        /\ ShownSeconds(stamp) = seconds.whole
        /\ ShownMillis(stamp) = seconds.frac \div TicksPerMilli

\* C9 as amended: s is first rounded to a nearest microsecond, and that
\* rounded value is truncated: with r a number of microseconds nearest to the
\* sub-second remainder, the fields show floor(s) plus the whole second of r
\* and mmm is the floor of the rest of r in milliseconds
\* (0.0 gives 00:00:00,000; 3661.2345 gives 01:01:01,234).
C9_RoundsToMicrosThenTruncates ==
    stamp # <<>> =>
    /\ \E r \in {seconds.frac \div TicksPerMicro, seconds.frac \div TicksPerMicro + 1} :
          /\ 2 * Abs(r * TicksPerMicro - seconds.frac) <= TicksPerMicro
          /\ ShownSeconds(stamp) = seconds.whole + r \div MicrosPerSecond
          /\ ShownMillis(stamp) = (r % MicrosPerSecond) \div MicrosPerMilli
    /\ seconds = [whole |-> 0, frac |-> 0] =>
          stamp = <<"0", "0", ":", "0", "0", ":", "0", "0", ",", "0", "0", "0">>
    /\ seconds = [whole |-> 3661, frac |-> 15008000] =>
          stamp = <<"0", "1", ":", "0", "1", ":", "0", "1", ",", "2", "3", "4">>

\* a remainder within half a microsecond of the next second is carried up
C9_Witness ==
    /\ seconds = [whole |-> 59, frac |-> 63999975]
    /\ stamp = <<"0", "0", ":", "0", "1", ":", "0", "0", ",", "0", "0", "0">>

\* ============================================================ segments_to_srt

RECURSIVE WordsOfSegments(_, _)
\* the words of the first n segments, in order
WordsOfSegments(segs, n) ==
    IF n = 0 THEN <<>>
    ELSE WordsOfSegments(segs, n - 1) \o StripSplit(segs[n].text)

\* the caption blocks in the output lines
NumBlocks == Len(lines) \div 4
IndexLine(k) == lines[4 * (k - 1) + 1]
TextLine(k) == lines[4 * (k - 1) + 3]
BlankLine(k) == lines[4 * (k - 1) + 4]

RECURSIVE WordsOfBlocks(_)
\* the text lines of the first n blocks, each split on whitespace
WordsOfBlocks(n) ==
    IF n = 0 THEN <<>> ELSE WordsOfBlocks(n - 1) \o StripSplit(TextLine(n))

RECURSIVE CaptionsOf(_, _)
\* the captions emitted for segment number s, in order
CaptionsOf(caps, s) ==
    IF caps = <<>> THEN <<>>
    ELSE (IF caps[1].seg = s THEN <<caps[1]>> ELSE <<>>) \o CaptionsOf(Tail(caps), s)

WordCount(s) == Len(StripSplit(segments[s].text))

CeilDiv(n, d) == (n + d - 1) \div d

\* C1: with max_words >= 1, the text lines emitted so far, split on
\* whitespace and concatenated in emission order, are exactly the words of
\* the segments consumed so far, in input order.
C1_WordsPreserved ==
    max_words >= 1 =>
        /\ Len(lines) = 4 * NumBlocks
        /\ WordsOfBlocks(NumBlocks) = WordsOfSegments(segments, seg_pos)

\* a call has returned after splitting a segment of a list of two or more
C1_Witness ==
    /\ srt_pc = "returned"
    /\ max_words >= 1
    /\ Len(segments) >= 2
    /\ \E s \in 1..Len(segments) : WordCount(s) > max_words
    /\ \E s \in 1..Len(segments) : WordCount(s) = 0

\* C2: with max_words >= 1, no caption holds more than max_words words; a
\* segment of at most max_words words gives one caption with all its words,
\* and a segment of n > max_words words gives ceil(n / max_words) captions
\* holding consecutive runs of max_words words, the last run the remainder.
C2_ChunkSizes ==
    max_words >= 1 =>
        /\ \A k \in 1..NumBlocks : Len(StripSplit(TextLine(k))) <= max_words
        /\ Len(captions) = NumBlocks
        /\ \A k \in 1..NumBlocks : TextLine(k) = Join(<<" ">>, captions[k].words)
        /\ \A s \in 1..seg_pos :
              LET words == StripSplit(segments[s].text)
                  n == Len(words)
                  caps == CaptionsOf(captions, s)
              IN  IF n <= max_words
                  THEN /\ Len(caps) = 1
                       /\ caps[1].words = words
                  ELSE /\ Len(caps) = CeilDiv(n, max_words)
                       /\ \A j \in 1..Len(caps) :
                             /\ caps[j].words =
                                   SubSeq(words, (j - 1) * max_words + 1,
                                          Min(j * max_words, n))
                             /\ j < Len(caps) => Len(caps[j].words) = max_words

\* a segment was split into three or more captions, the last one shorter
C2_Witness ==
    /\ max_words >= 2
    /\ \E s \in 1..seg_pos :
          LET caps == CaptionsOf(captions, s)
          IN  /\ Len(caps) >= 3
              /\ Len(caps[Len(caps)].words) < max_words

\* C3: the index lines of the emitted captions are 1, 2, ..., N in emission
\* order, and the counter is one more than the number of captions emitted,
\* whatever the segments and however many captions each one gave.
C3_IndicesSequential ==
    /\ Len(lines) = 4 * NumBlocks
    /\ idx = NumBlocks + 1
    /\ \A k \in 1..NumBlocks : IndexLine(k) = Decimal(k) /\ BlankLine(k) = <<>>
    /\ Len(captions) = NumBlocks
    /\ \A k \in 1..NumBlocks : captions[k].index = k

\* a call has returned four or more captions from two or more segments, one
\* of them split
C3_Witness ==
    /\ srt_pc = "returned"
    /\ NumBlocks >= 4
    /\ Len(segments) >= 2
    /\ \E s \in 1..Len(segments) : Len(CaptionsOf(captions, s)) >= 2
    /\ \E s \in 2..Len(segments) : Len(CaptionsOf(captions, s)) >= 1

\* C4: for every consumed segment with start <= end and max_words >= 1, each
\* of its captions has start <= end; the first starts at the segment's
\* start, each next one starts where the one before ends, the last ends at
\* the segment's end, and a caption's length is its share, by word count, of
\* the segment's duration.
C4_ExactPartition ==
    max_words >= 1 =>
        \A s \in 1..seg_pos :
            LET seg == segments[s]
                n == WordCount(s)
                caps == CaptionsOf(captions, s)
            IN  (seg.start <= seg.end /\ caps # <<>>) =>
                  /\ caps[1].start = seg.start
                  /\ caps[Len(caps)].end = seg.end
                  /\ \A j \in 1..Len(caps) :
                        /\ caps[j].start <= caps[j].end
                        /\ j > 1 => caps[j].start = caps[j - 1].end
                        /\ (caps[j].end - caps[j].start) * n =
                              Len(caps[j].words) * (seg.end - seg.start)

\* C5: a call with max_words <= 0 is rejected with a configuration error
\* before any segment is consumed: it consumes nothing, returns nothing and
\* raises nothing else.
C5_RejectsNonPositive ==
    max_words <= 0 =>
        /\ seg_pos = 0
        /\ lines = <<>>
        /\ srt_pc \in {"for", "raised"}
        /\ srt_pc = "raised" => srt_error = "ConfigurationError"

\* C6: with max_words >= 1, a consumed segment whose text has no words gives
\* no caption block and takes no index, and the call does not raise.
C6_EmptySegmentSilent ==
    max_words >= 1 =>
        /\ \A k \in 1..Len(captions) : WordCount(captions[k].seg) > 0
        /\ \A k \in 1..NumBlocks : StripSplit(TextLine(k)) # <<>>
        /\ srt_pc # "raised"

\* C7 as stated: given an empty list, segments_to_srt does not return a
\* document: it takes an error path.
C7_EmptyListIsError ==
    (segments = <<>> /\ max_words >= 1) => srt_pc # "returned"

\* C7 as amended: given an empty list, segments_to_srt raises nothing and
\* returns the empty string, without any caption block.
C7_EmptyListReturnsEmpty ==
    (segments = <<>> /\ srt_pc # "for") =>
        /\ srt_pc = "returned"
        /\ srt_error = ""
        /\ srt_return = <<>>
        /\ lines = <<>>

\* a call on the empty list has returned
C7_Witness ==
    /\ segments = <<>>
    /\ srt_pc = "returned"

\* ======================================================================= main

Ended == pc \in {"done", "exited"}

\* C10: the output file is written only after the transcription has
\* returned, and only when it returned a segment; a run whose input file is
\* missing stops before the model is loaded, a run whose transcription gave
\* no segment stops there, and both end with a non-zero exit status and a
\* message on stderr, without writing the output file.
C10_WriteOnlyAfterSegments ==
    /\ output_file.written => transcribed /\ Len(segments) >= 1
    /\ ~input_exists =>
          /\ pc \in {"parsed", "exited"}
          /\ ~model_loaded
    /\ (transcribed /\ Len(segments) = 0) => pc \in {"transcribed", "exited"}
    /\ (Ended /\ (~input_exists \/ (transcribed /\ Len(segments) = 0))) =>
          /\ exit_status = "1"
          /\ stderr # <<>>
          /\ ~output_file.written
    /\ pc = "done" <=> output_file.written

\* a run has ended on a transcription without segments
C10_Witness ==
    /\ Ended
    /\ input_exists
    /\ transcribed
    /\ Len(segments) = 0
    /\ exit_status = "1"

====
